---- MODULE Spec2Model ----
(***************************************************************************)
(* The post resolvers of server/src/types/post.ts (field resolvers votes,  *)
(* comments, voteStatus; mutations createPost, editPost, deletePost; query *)
(* feed) over the Prisma store.                                            *)
(*                                                                         *)
(* Tables are sets of rows.  A value that may be null in the source (a     *)
(* session, the result of findUnique) is a set with at most one element.   *)
(* A resolver is cut at its awaits: each store call is one atomic step,    *)
(* and the synchronous code around it belongs to the step of the store     *)
(* call that follows it (or, after the last one, precedes it).             *)
(* The optional image field of a post is carried through unchanged by      *)
(* every resolver and is left out of the rows.                             *)
(***************************************************************************)
EXTENDS Integers, Sequences, FiniteSets, TLC

VARIABLES sub, post, nextId, postVote, userSub, comment, nextCommentId,
          now, req, resp

vars == <<sub, post, nextId, postVote, userSub, comment, nextCommentId,
          now, req, resp>>

store == <<sub, post, nextId, postVote, userSub, comment, nextCommentId>>

(*************************** bounds and input sets *************************)
MaxPosts == 2
MaxTime == 1
MaxTake == 1
MaxComments == 2

Users == {"u1", "u2"}
SubNames == {"s1", "s2"}
SubArgs == SubNames \cup {"nosub"}
ReqIds == {1, 2}

PostIds == 1..MaxPosts
Sessions == {{}} \cup {{[userId |-> u]} : u \in Users}
ValidInput == [title |-> "t", body |-> "b"]
EditInputs == {ValidInput, [title |-> "", body |-> "b"]}
PostInputs == EditInputs \cup {[title |-> "t", body |-> ""]}
NoCursor == -1
PaginationInputs == [take : 1..MaxTake, cursor : {NoCursor} \cup (1..MaxTime)]

Idle == [pc |-> "idle"]
NoResp == [kind |-> "none"]

\* A response is read by no resolver; every step waits until the last one has
\* left the server.
Ready == resp = NoResp

Deliver ==
  /\ resp # NoResp
  /\ resp' = NoResp
  /\ UNCHANGED <<store, now, req>>

(******************************* lib helpers *******************************)
\* getSession(req, required): the session ({userId} or null); with required
\* set, an absent session is the unauthenticated fault.
getSession(session, required) ==
  IF required /\ session = {} THEN [fault |-> "not authenticated", session |-> {}]
  ELSE [fault |-> "", session |-> session]

\* validatePost(input): the first field-level message, "" when the payload
\* passes.
validatePost(input) ==
  IF Len(input.title) = 0 THEN "title cannot be empty"
  ELSE IF Len(input.body) = 0 THEN "body cannot be empty"
  ELSE ""

\* getPaginationData(input): the fetch directive, one record more than asked.
getPaginationData(input) == [take |-> input.take + 1, cursor |-> input.cursor]

(****************************** store calls ********************************)
findUnique(table, id) == {row \in table : row.id = id}

\* prisma.post.create: the foreign keys (creator, sub) must name rows.
post_create_fails(data) == data.subName \notin sub \/ data.creatorId \notin Users

post_create_row(data) ==
  [id |-> nextId, title |-> data.title, body |-> data.body,
   creatorId |-> data.creatorId, subName |-> data.subName,
   createdAt |-> now, updatedAt |-> now]

\* An update whose where clause matches every row.
post_update_all(table, id, data) ==
  {[row EXCEPT !.title = data.title, !.body = data.body,
               !.updatedAt = data.updatedAt] : row \in table}

\* prisma.post.update({where: {id}, data}); throws when no row has the id.
post_update(table, id, data) ==
  {IF row.id = id
     THEN [row EXCEPT !.title = data.title, !.body = data.body,
                      !.updatedAt = data.updatedAt]
     ELSE row : row \in table}

\* prisma.post.delete({where: {id}}); throws when no row has the id.
post_delete(table, id) == {row \in table : row.id # id}

(******************************** mutations ********************************)
MutResp(kind, session, postId, fault) ==
  [kind |-> kind, session |-> session, postId |-> postId,
   outcome |-> IF fault = "" THEN "ok" ELSE "fault", fault |-> fault]

CreateResp(session, subName, input, postId, fault) ==
  [kind |-> "createPost", session |-> session, subName |-> subName,
   input |-> input, postId |-> postId,
   outcome |-> IF fault = "" THEN "ok" ELSE "fault", fault |-> fault]

\* Concurrent requests take the request slots in order.
FreeSlot(r) == req[r] = Idle /\ \A q \in ReqIds : q < r => req[q] # Idle

\* A createPost that validates before it asks for the session.
createPostGuard_validateFirst(session, input) ==
  IF validatePost(input) # "" THEN "UserInputError"
  ELSE getSession(session, TRUE).fault

\* A createPost that does not validate.
createPostGuard_noValidate(session, input) == getSession(session, TRUE).fault

\* createPost up to its store call: the fault that ends it, "" when it goes on
\* to prisma.post.create.
createPostGuard(session, input) ==
  IF getSession(session, TRUE).fault # "" THEN getSession(session, TRUE).fault
  ELSE IF validatePost(input) # "" THEN "UserInputError"
  ELSE ""

createPostData(userId, subName, input) ==
  [creatorId |-> userId, subName |-> subName,
   title |-> input.title, body |-> input.body]

createPost(session, subName, input) ==
  /\ Ready
  /\ nextId <= MaxPosts
  /\ LET fault == createPostGuard(session, input) IN
     IF fault # ""
       THEN /\ resp' = CreateResp(session, subName, input, 0, fault)
            /\ UNCHANGED <<post, nextId>>
       ELSE LET userId == (CHOOSE s \in session : TRUE).userId
                data == createPostData(userId, subName, input)
            IN IF post_create_fails(data)
                 THEN /\ resp' = CreateResp(session, subName, input, 0, "sub not found")
                      /\ UNCHANGED <<post, nextId>>
                 ELSE /\ post' = post \cup {post_create_row(data)}
                      /\ nextId' = nextId + 1
                      /\ resp' = CreateResp(session, subName, input, nextId, "")
  /\ UNCHANGED <<sub, postVote, userSub, comment, nextCommentId, now, req>>

\* An editPost without the creator check.
editPostGuard_noOwner(postExists, userId) ==
  IF postExists = {} THEN "post not found" ELSE ""

\* A deletePost that reports a missing post as one the user may not update.
deletePostGuard_wrongFault(postExists, userId) ==
  IF \E p \in postExists : p.creatorId = userId THEN "" ELSE "cannot update post"

\* editPost and deletePost between the lookup and the write: the fault that
\* ends the request, "" when it goes on to the write.
editPostGuard(postExists, userId) ==
  IF postExists = {} THEN "post not found"
  ELSE IF (CHOOSE p \in postExists : TRUE).creatorId # userId
    THEN "cannot update post"
  ELSE ""

deletePostGuard(postExists, userId) ==
  IF postExists = {} THEN "post not found"
  ELSE IF (CHOOSE p \in postExists : TRUE).creatorId # userId
    THEN "cannot update post"
  ELSE ""

editPostData(input) ==
  [title |-> input.title, body |-> input.body, updatedAt |-> now]

editPost_findUnique(r, session, postId, input) ==
  /\ Ready
  /\ FreeSlot(r)
  /\ IF getSession(session, TRUE).fault # ""
       THEN /\ resp' = MutResp("editPost", session, postId,
                               getSession(session, TRUE).fault)
            /\ UNCHANGED req
       ELSE LET userId == (CHOOSE s \in session : TRUE).userId
                postExists == findUnique(post, postId)
                fault == editPostGuard(postExists, userId)
            IN IF fault # ""
                 THEN /\ resp' = MutResp("editPost", session, postId, fault)
                      /\ UNCHANGED req
                 ELSE /\ req' = [req EXCEPT ![r] =
                             [pc |-> "editPost_update", session |-> session,
                              postId |-> postId, input |-> input]]
                      /\ resp' = NoResp
  /\ UNCHANGED <<store, now>>

editPost_update(r) ==
  /\ Ready
  /\ req[r].pc = "editPost_update"
  /\ LET postId == req[r].postId IN
     IF findUnique(post, postId) = {}
       THEN /\ resp' = MutResp("editPost", req[r].session, postId,
                               "RecordNotFound")
            /\ UNCHANGED post
       ELSE /\ post' = post_update(post, postId, editPostData(req[r].input))
            /\ resp' = MutResp("editPost", req[r].session, postId, "")
  /\ req' = [req EXCEPT ![r] = Idle]
  /\ UNCHANGED <<sub, nextId, postVote, userSub, comment, nextCommentId, now>>

deletePost_findUnique(r, session, postId) ==
  /\ Ready
  /\ FreeSlot(r)
  /\ IF getSession(session, TRUE).fault # ""
       THEN /\ resp' = MutResp("deletePost", session, postId,
                               getSession(session, TRUE).fault)
            /\ UNCHANGED req
       ELSE LET userId == (CHOOSE s \in session : TRUE).userId
                postExists == findUnique(post, postId)
                fault == deletePostGuard(postExists, userId)
            IN IF fault # ""
                 THEN /\ resp' = MutResp("deletePost", session, postId, fault)
                      /\ UNCHANGED req
                 ELSE /\ req' = [req EXCEPT ![r] =
                             [pc |-> "deletePost_delete", session |-> session,
                              postId |-> postId]]
                      /\ resp' = NoResp
  /\ UNCHANGED <<store, now>>

deletePost_delete(r) ==
  /\ Ready
  /\ req[r].pc = "deletePost_delete"
  /\ LET postId == req[r].postId IN
     IF findUnique(post, postId) = {}
       THEN /\ resp' = MutResp("deletePost", req[r].session, postId,
                               "RecordNotFound")
            /\ UNCHANGED post
       ELSE /\ post' = post_delete(post, postId)
            /\ resp' = MutResp("deletePost", req[r].session, postId, "")
  /\ req' = [req EXCEPT ![r] = Idle]
  /\ UNCHANGED <<sub, nextId, postVote, userSub, comment, nextCommentId, now>>

\* The clock read by new Date() and by the store's creation timestamps.  Only
\* the order and the equality of timestamps are read, so the clock moves on
\* only from an instant that stamped a row.
Stamped ==
  {row.createdAt : row \in post} \cup {row.updatedAt : row \in post}
    \cup {row.createdAt : row \in comment}

Tick ==
  /\ Ready
  /\ now < MaxTime
  /\ now \in Stamped
  /\ now' = now + 1
  /\ resp' = NoResp
  /\ UNCHANGED <<store, req>>

(***************************** field resolvers *****************************)
Min(a, b) == IF a < b THEN a ELSE b

\* The arrays a findMany may return for a set of rows: every row once.
Enumerations(rows) ==
  {f \in [1..Cardinality(rows) -> rows] :
     \A i, j \in 1..Cardinality(rows) : i # j => f[i] # f[j]}

\* orderBy: {createdAt: "desc"}; rows of equal createdAt come in any order.
OrderByCreatedAtDesc(rows) ==
  {f \in Enumerations(rows) :
     \A i, j \in 1..Cardinality(rows) : i < j => f[i].createdAt >= f[j].createdAt}

AfterCursor(row, cursor) == cursor = NoCursor \/ row.createdAt < cursor

\* findMany({where, orderBy, ...pagination}) on the rows the where clause keeps.
findMany(rows, pagination) ==
  {SubSeq(f, 1, Min(pagination.take, Len(f))) :
     f \in OrderByCreatedAtDesc({row \in rows : AfterCursor(row, pagination.cursor)})}

\* Array.prototype.slice(0, n)
slice0(arr, n) == SubSeq(arr, 1, Min(n, Len(arr)))

\* A reducer that counts the rows instead of adding their values.
votesReducer_count(prev, curr) == prev + 1

\* Post.votes: the reducer and the reduction over the fetched rows.
votesReducer(prev, curr) == prev + curr.value

RECURSIVE reduce(_, _)
reduce(voteArr, prev) ==
  IF voteArr = <<>> THEN prev
  ELSE reduce(Tail(voteArr), votesReducer(prev, Head(voteArr)))

votes(parentId) ==
  /\ Ready
  /\ parentId < nextId
  /\ \E voteArr \in Enumerations({row \in postVote : row.postId = parentId}) :
       resp' = [kind |-> "votes", postId |-> parentId, value |-> reduce(voteArr, 0)]
  /\ UNCHANGED <<store, now, req>>

\* A lookup by post alone, without the session's user.
voteStatusValue_anyUser(session, parentId) ==
  LET vote == {row \in postVote : row.postId = parentId}
  IN IF vote = {} THEN 0 ELSE (CHOOSE row \in vote : TRUE).value

\* Post.voteStatus
voteStatusValue(session, parentId) ==
  IF \A s \in getSession(session, FALSE).session : s.userId = "" THEN 0
  ELSE LET userId == (CHOOSE s \in session : TRUE).userId
           vote == {row \in postVote : row.userId = userId /\ row.postId = parentId}
       IN IF vote = {} THEN 0 ELSE (CHOOSE row \in vote : TRUE).value

voteStatus(session, parentId) ==
  /\ Ready
  /\ parentId < nextId
  /\ resp' = [kind |-> "voteStatus", session |-> session, postId |-> parentId,
              value |-> voteStatusValue(session, parentId)]
  /\ UNCHANGED <<store, now, req>>

\* Post.comments
commentsPage(fetched, input) ==
  [hasMore |-> Len(fetched) = input.take + 1,
   comments |-> slice0(fetched, input.take)]

comments(parentId, input) ==
  /\ Ready
  /\ parentId < nextId
  /\ \E fetched \in findMany({row \in comment : row.postId = parentId},
                              getPaginationData(input)) :
       resp' = [kind |-> "comments", postId |-> parentId, input |-> input,
                fetched |-> Len(fetched), page |-> commentsPage(fetched, input)]
  /\ UNCHANGED <<store, now, req>>

(********************************* Query.feed ******************************)
\* A page whose hasMore compares against take instead of take + 1.
feedPage_offByOne(posts, input) ==
  [hasMore |-> Len(posts) >= input.take,
   posts |-> slice0(posts, input.take)]

feedPage(posts, input) ==
  [hasMore |-> Len(posts) = input.take + 1,
   posts |-> slice0(posts, input.take)]

\* A findMany without the where clause.
feedWhere_all(row, subNames) == TRUE

\* where: {subName: {in: subNames}}
feedWhere(row, subNames) == \E i \in 1..Len(subNames) : subNames[i] = row.subName

FeedResp(session, input, subNames, fetched) ==
  [kind |-> "feed", session |-> session, input |-> input, subNames |-> subNames,
   fetched |-> Len(fetched), page |-> feedPage(fetched, input)]

\* The branch of a session without a user: one findMany over all posts.
feed_anonymous(session, input) ==
  /\ Ready
  /\ \A s \in getSession(session, FALSE).session : s.userId = ""
  /\ \E posts \in findMany(post, getPaginationData(input)) :
       resp' = FeedResp(session, input, <<>>, posts)
  /\ UNCHANGED <<store, now, req>>

\* The branch of a session with a user, first await: the user's subscriptions.
feed_userSub(r, session, input) ==
  /\ Ready
  /\ FreeSlot(r)
  /\ \E s \in getSession(session, FALSE).session : s.userId # ""
  /\ LET userId == (CHOOSE s \in session : TRUE).userId IN
     \E subs \in Enumerations({row \in userSub : row.userId = userId}) :
       req' = [req EXCEPT ![r] =
                 [pc |-> "feed_post", session |-> session, input |-> input,
                  subNames |-> [i \in 1..Len(subs) |-> subs[i].subName]]]
  /\ resp' = NoResp
  /\ UNCHANGED <<store, now>>

\* Second await: the posts of those subs.
feed_post(r) ==
  /\ Ready
  /\ req[r].pc = "feed_post"
  /\ \E posts \in findMany({row \in post : feedWhere(row, req[r].subNames)},
                            getPaginationData(req[r].input)) :
       resp' = FeedResp(req[r].session, req[r].input, req[r].subNames, posts)
  /\ req' = [req EXCEPT ![r] = Idle]
  /\ UNCHANGED <<store, now>>

(************************ the other writers of the store *******************)
\* A vote of user u on post p: at most one row per (user, post).
castVote(u, p, v) ==
  /\ Ready
  /\ findUnique(post, p) # {}
  /\ postVote' = {row \in postVote : ~(row.userId = u /\ row.postId = p)}
                    \cup {[userId |-> u, postId |-> p, value |-> v]}
  /\ resp' = NoResp
  /\ UNCHANGED <<sub, post, nextId, userSub, comment, nextCommentId, now, req>>

removeVote(u, p) ==
  /\ Ready
  /\ \E row \in postVote : row.userId = u /\ row.postId = p
  /\ postVote' = {row \in postVote : ~(row.userId = u /\ row.postId = p)}
  /\ resp' = NoResp
  /\ UNCHANGED <<sub, post, nextId, userSub, comment, nextCommentId, now, req>>

subscribe(u, s) ==
  /\ Ready
  /\ s \in sub
  /\ [userId |-> u, subName |-> s] \notin userSub
  /\ userSub' = userSub \cup {[userId |-> u, subName |-> s]}
  /\ resp' = NoResp
  /\ UNCHANGED <<sub, post, nextId, postVote, comment, nextCommentId, now, req>>

unsubscribe(u, s) ==
  /\ Ready
  /\ [userId |-> u, subName |-> s] \in userSub
  /\ userSub' = userSub \ {[userId |-> u, subName |-> s]}
  /\ resp' = NoResp
  /\ UNCHANGED <<sub, post, nextId, postVote, comment, nextCommentId, now, req>>

addComment(p) ==
  /\ Ready
  /\ nextCommentId <= MaxComments
  /\ findUnique(post, p) # {}
  /\ comment' = comment \cup {[id |-> nextCommentId, postId |-> p, createdAt |-> now]}
  /\ nextCommentId' = nextCommentId + 1
  /\ resp' = NoResp
  /\ UNCHANGED <<sub, post, nextId, postVote, userSub, now, req>>

(****************************** specifications *****************************)
Init ==
  /\ sub = SubNames
  /\ post = {}
  /\ nextId = 1
  /\ postVote = {}
  /\ userSub = {}
  /\ comment = {}
  /\ nextCommentId = 1
  /\ now = 0
  /\ req = [r \in ReqIds |-> Idle]
  /\ resp = NoResp

\* Mutations: createPost, and editPost and deletePost in two concurrent
\* requests.  Requests on different posts read and write disjoint rows; the
\* requests followed while one is in flight are those on its post.
SamePost(postId) == \A q \in ReqIds : req[q] # Idle => req[q].postId = postId

NextMut ==
  \/ Deliver
  \/ Tick
  \/ \E session \in Sessions, subName \in {"s1", "nosub"}, input \in PostInputs :
       createPost(session, subName, input)
  \/ \E r \in ReqIds, session \in Sessions, postId \in PostIds, input \in EditInputs :
       SamePost(postId) /\ editPost_findUnique(r, session, postId, input)
  \/ \E r \in ReqIds : editPost_update(r)
  \/ \E r \in ReqIds, session \in Sessions, postId \in PostIds :
       SamePost(postId) /\ deletePost_findUnique(r, session, postId)
  \/ \E r \in ReqIds : deletePost_delete(r)

SpecMut == Init /\ [][NextMut]_vars

\* Votes: posts, vote rows cast and withdrawn, and the two vote fields.
NextVotes ==
  \/ Deliver
  \/ createPost({[userId |-> "u1"]}, "s1", ValidInput)
  \/ \E u \in Users, p \in PostIds, v \in {-1, 1} : castVote(u, p, v)
  \/ \E u \in Users, p \in PostIds : removeVote(u, p)
  \/ \E p \in PostIds : votes(p)
  \/ \E session \in Sessions, p \in PostIds : voteStatus(session, p)

SpecVotes == Init /\ [][NextVotes]_vars

\* Feed: posts of two subs over time, the subscriptions of two users, feed.
NextFeed ==
  \/ Deliver
  \/ Tick
  \/ \E subName \in SubNames : createPost({[userId |-> "u1"]}, subName, ValidInput)
  \/ \E u \in Users, s \in SubNames : subscribe(u, s)
  \/ \E u \in Users, s \in SubNames : unsubscribe(u, s)
  \/ \E input \in PaginationInputs : feed_anonymous({}, input)
  \/ \E session \in Sessions, input \in PaginationInputs : feed_userSub(1, session, input)
  \/ feed_post(1)

SpecFeed == Init /\ [][NextFeed]_vars

\* Pages: posts and comments over time, feed and comments, for a user who has
\* joined one of the two subs.
InitPage ==
  /\ sub = SubNames
  /\ post = {}
  /\ nextId = 1
  /\ postVote = {}
  /\ userSub = {[userId |-> "u1", subName |-> "s1"]}
  /\ comment = {}
  /\ nextCommentId = 1
  /\ now = 0
  /\ req = [r \in ReqIds |-> Idle]
  /\ resp = NoResp

NextPage ==
  \/ Deliver
  \/ Tick
  \/ \E subName \in SubNames : createPost({[userId |-> "u1"]}, subName, ValidInput)
  \/ \E p \in PostIds : addComment(p)
  \/ \E input \in PaginationInputs : feed_anonymous({}, input)
  \/ \E input \in PaginationInputs : feed_userSub(1, {[userId |-> "u1"]}, input)
  \/ feed_post(1)
  \/ \E p \in PostIds, input \in PaginationInputs : comments(p, input)

SpecPage == InitPage /\ [][NextPage]_vars

(********************************** claims *********************************)
SeqRange(seq) == {seq[i] : i \in 1..Len(seq)}

RECURSIVE SumValues(_)
SumValues(rows) ==
  IF rows = {} THEN 0
  ELSE LET row == CHOOSE x \in rows : TRUE
       IN row.value + SumValues(rows \ {row})

VotesOf(postId) == {row \in postVote : row.postId = postId}

\* C1: the votes field resolved for a post equals the sum of the values of
\* the vote rows of that post in the store at the read (0 without rows),
\* whatever rows were added or removed before.
C1_VotesIsSum ==
  resp.kind = "votes" => resp.value = SumValues(VotesOf(resp.postId))

C1_Witness ==
  /\ resp.kind = "votes"
  /\ \E a, b \in VotesOf(resp.postId) : a.value = 1 /\ b.value = -1

\* C2: voteStatus is in {-1, 0, 1}; it is 0 for an anonymous session and when
\* the requester has no vote row on the post, and otherwise the value of the
\* requester's row.
C2_VoteStatus ==
  resp.kind = "voteStatus" =>
    LET own == {row \in VotesOf(resp.postId) :
                  \E s \in resp.session : s.userId = row.userId}
    IN /\ resp.value \in {-1, 0, 1}
       /\ own = {} => resp.value = 0
       /\ \A row \in own : resp.value = row.value

C2_Witness ==
  /\ resp.kind = "voteStatus"
  /\ resp.value = -1
  /\ \E row \in VotesOf(resp.postId) : row.value = 1

\* The records a page is drawn from: after the cursor, and for the feed of a
\* session with a user, of the subs fetched for that user.
EligibleCount ==
  IF resp.kind = "feed"
    THEN Cardinality({row \in post :
           /\ AfterCursor(row, resp.input.cursor)
           /\ resp.session # {} => row.subName \in SeqRange(resp.subNames)})
    ELSE Cardinality({row \in comment :
           row.postId = resp.postId /\ AfterCursor(row, resp.input.cursor)})

PageLen == IF resp.kind = "feed" THEN Len(resp.page.posts) ELSE Len(resp.page.comments)

\* C3: a page of the feed or of a post's comments never has more than take
\* records; with at least take + 1 eligible records hasMore is true and the
\* page has take records; with exactly take, hasMore is false and the page has
\* take records; hasMore is true iff the fetch returned take + 1 records.
C3_Pagination ==
  resp.kind \in {"feed", "comments"} =>
    LET take == resp.input.take IN
    /\ PageLen <= take
    /\ EligibleCount >= take + 1 => resp.page.hasMore /\ PageLen = take
    /\ EligibleCount = take => ~resp.page.hasMore /\ PageLen = take
    /\ resp.page.hasMore <=> resp.fetched = take + 1

C3_Witness ==
  /\ resp.kind = "feed"
  /\ resp.session # {}
  /\ resp.page.hasMore
  /\ Len(resp.page.posts) = resp.input.take

SubsOf(userId) == {row.subName : row \in {x \in userSub : x.userId = userId}}

\* C4: the feed of a session with a user holds only posts of the subs the user
\* is subscribed to when the feed reads the subscriptions (none: an empty page,
\* hasMore false); the feed of an anonymous session is drawn from all posts.
C4_FeedFilter ==
  [][/\ \A r \in ReqIds :
          (req[r] = Idle /\ req'[r] # Idle /\ req'[r].pc = "feed_post") =>
            \A s \in req'[r].session : SeqRange(req'[r].subNames) = SubsOf(s.userId)
     /\ resp'.kind = "feed" =>
          IF resp'.session # {}
            THEN /\ \E r \in ReqIds : /\ req[r] # Idle
                                      /\ req[r].pc = "feed_post"
                                      /\ req'[r] = Idle
                                      /\ req[r].session = resp'.session
                                      /\ req[r].subNames = resp'.subNames
                 /\ \A i \in 1..Len(resp'.page.posts) :
                      /\ resp'.page.posts[i] \in post
                      /\ resp'.page.posts[i].subName \in SeqRange(resp'.subNames)
                 /\ resp'.subNames = <<>> =>
                      resp'.page.posts = <<>> /\ ~resp'.page.hasMore
            ELSE /\ SeqRange(resp'.page.posts) \subseteq post
                 /\ Len(resp'.page.posts) =
                      Min(resp'.input.take,
                          Cardinality({row \in post :
                                         AfterCursor(row, resp'.input.cursor)}))
    ]_vars

C4_Witness ==
  /\ resp.kind = "feed"
  /\ resp.session # {}
  /\ resp.page.posts # <<>>
  /\ \E row \in post : /\ AfterCursor(row, resp.input.cursor)
                       /\ row.subName \notin SeqRange(resp.subNames)

IsWrite(pc) == pc \in {"editPost_update", "deletePost_delete"}

\* A request that starts in this step and goes on to its write.
Proceeds(r) == req[r] = Idle /\ req'[r] # Idle /\ IsWrite(req'[r].pc)

\* A request that ends in this step at its lookup, before any write.
EndsAtLookup == resp'.kind \in {"editPost", "deletePost"} /\ req' = req

\* C5: an editPost or deletePost on an existing post by a user who is not its
\* creator ends with "cannot update post" and changes nothing; a post is
\* changed or removed only by a successful request of its creator.
C5_OnlyCreator ==
  [][/\ \A r \in ReqIds : Proceeds(r) =>
          \A p \in findUnique(post, req'[r].postId) :
            req'[r].session = {[userId |-> p.creatorId]}
     /\ \A p \in post :
          (/\ EndsAtLookup
           /\ resp'.postId = p.id
           /\ resp'.session # {}
           /\ resp'.session # {[userId |-> p.creatorId]})
          => resp'.fault = "cannot update post" /\ store' = store
     /\ \A p \in post : p \notin post' =>
          /\ resp'.kind \in {"editPost", "deletePost"}
          /\ resp'.outcome = "ok"
          /\ resp'.postId = p.id
          /\ resp'.session = {[userId |-> p.creatorId]}
    ]_vars

C5_Witness ==
  /\ resp.kind = "editPost"
  /\ resp.fault = "cannot update post"
  /\ \E p \in post : p.id = resp.postId /\ resp.session # {[userId |-> p.creatorId]}

\* C6: createPost, editPost and deletePost without a session end with the
\* unauthenticated fault and nothing else, and change no post.
C6_Unauthenticated ==
  [][(resp'.kind \in {"createPost", "editPost", "deletePost"} /\ resp'.session = {})
       => /\ resp'.fault = "not authenticated"
          /\ store' = store
          /\ req' = req
    ]_vars

C6_Witness ==
  /\ resp.kind = "createPost"
  /\ resp.session = {}
  /\ resp.fault = "not authenticated"
  /\ Len(resp.input.title) = 0

\* C7: an editPost or deletePost of a user for an id without a post ends with
\* "post not found", never goes on to the write, and changes nothing.
C7_PostNotFound ==
  [][/\ \A r \in ReqIds : Proceeds(r) => findUnique(post, req'[r].postId) # {}
     /\ (/\ EndsAtLookup
         /\ resp'.session # {}
         /\ findUnique(post, resp'.postId) = {})
        => resp'.fault = "post not found" /\ store' = store
    ]_vars

C7_Witness ==
  /\ resp.kind = "deletePost"
  /\ resp.fault = "post not found"
  /\ resp.session # {}
  /\ post # {}

\* C8: createPost of a user ends with the validation fault for an invalid
\* payload, with "sub not found" for a valid payload whose store create fails,
\* both without adding a post; otherwise it adds one post, of the session's
\* user and the given sub.
C8_CreatePost ==
  [][(resp'.kind = "createPost" /\ resp'.session # {}) =>
       LET input == resp'.input
           invalid == Len(input.title) = 0 \/ Len(input.body) = 0
       IN /\ invalid => resp'.fault = "UserInputError" /\ store' = store
          /\ (~invalid /\ resp'.subName \notin sub) =>
               resp'.fault = "sub not found" /\ store' = store
          /\ (~invalid /\ resp'.subName \in sub) =>
               /\ resp'.outcome = "ok"
               /\ \E row \in post' \ post :
                    /\ post' = post \cup {row}
                    /\ row.id = resp'.postId
                    /\ findUnique(post, row.id) = {}
                    /\ resp'.session = {[userId |-> row.creatorId]}
                    /\ row.subName = resp'.subName
                    /\ row.title = input.title /\ row.body = input.body
          /\ post' # post => ~invalid /\ resp'.outcome = "ok"
    ]_vars

C8_Witness ==
  /\ resp.kind = "createPost"
  /\ resp.session # {}
  /\ resp.fault = "sub not found"
  /\ post # {}

Others == <<sub, postVote, userSub, comment, nextCommentId>>

\* C9: a successful createPost adds one post, a successful editPost sets only
\* the payload fields and updatedAt of its post, a successful deletePost
\* removes only its post; every other step, a fault among them, writes nothing.
C9_OneWrite ==
  [][/\ Others' = Others
     /\ IF resp'.kind = "createPost" /\ resp'.outcome = "ok"
          THEN \E row \in post' \ post : post' = post \cup {row}
        ELSE IF resp'.kind = "editPost" /\ resp'.outcome = "ok"
          THEN \E old \in post, new \in post', r \in ReqIds :
                 /\ req[r] # Idle /\ req'[r] = Idle
                 /\ req[r].postId = resp'.postId
                 /\ old.id = resp'.postId
                 /\ post' = (post \ {old}) \cup {new}
                 /\ new = [old EXCEPT !.title = req[r].input.title,
                                      !.body = req[r].input.body,
                                      !.updatedAt = now]
        ELSE IF resp'.kind = "deletePost" /\ resp'.outcome = "ok"
          THEN \E old \in post : old.id = resp'.postId /\ post' = post \ {old}
        ELSE post' = post /\ nextId' = nextId
    ]_vars

C9_Witness ==
  /\ resp.kind = "editPost"
  /\ resp.outcome = "ok"
  /\ Cardinality(post) = 2
  /\ \E p \in post : p.id = resp.postId /\ p.title = "" /\ p.updatedAt > p.createdAt

\* C10: an editPost or deletePost that passed the session and creator checks
\* ends successfully or with "post not found", in every interleaving.
C10_EndsOkOrNotFound ==
  (resp.kind \in {"editPost", "deletePost"}
     /\ resp.fault \notin {"not authenticated", "cannot update post"})
  => resp.fault \in {"", "post not found"}

====
